---- MODULE Spec2Model ----
(***************************************************************************)
(* The H2 / IQPE distance sweep of community/chemistry/h2_iqpe.ipynb: the  *)
(* parent cell that submits one unit of work per (algorithm, step) to a    *)
(* ProcessPoolExecutor, the units (subrountine) running in the pool, and   *)
(* the collection of their results into energies, hf_energies, distances.  *)
(***************************************************************************)
EXTENDS Integers, Sequences, FiniteSets, TLC

(* ---------------------------------------------------------------- bounds *)

\* The notebook sweeps steps = 20; the model sweeps StepsBound steps.
StepsBound == 2

\* mp.cpu_count() is an input of the run: the model tries 1..MaxCpu.
MaxCpu == 5

(* ------------------------------------------------ notebook-level constants *)

\* A rational number num/den (den > 0); the notebook's floats, kept exact.
Rat(n, d) == [num |-> n, den |-> d]

RatLess(a, b) == a.num * b.den < b.num * a.den

RatEq(a, b) == a.num * b.den = b.num * a.den

\* a - b, on the common denominator a.den * b.den
RatSub(a, b) == Rat(a.num * b.den - b.num * a.den, a.den * b.den)

RatAdd(a, b) == Rat(a.num * b.den + b.num * a.den, a.den * b.den)

start == Rat(1, 2)

by == Rat(1, 2)

MinWorkers == 4

algorithms ==
    << [name |-> "IQPE", num_iterations |-> 16, num_time_slices |-> 3000,
        expansion_mode |-> "trotter", expansion_order |-> 1],
       [name |-> "ExactEigensolver"] >>

backends == << "qasm_simulator", "None" >>

qiskit_chemistry_dict ==
    [driver        |-> [name |-> "PYSCF"],
     PYSCF         |-> [atom |-> <<>>, basis |-> "sto3g"],
     operator      |-> [name |-> "hamiltonian", transformation |-> "full",
                        qubit_mapping |-> "parity"],
     algorithm     |-> [name |-> ""],
     initial_state |-> [name |-> "HartreeFock"]]

\* molecule.format(x): the template with x substituted at both {0} places.
molecule_format(x) == << "H .0 .0 -", x, "; H .0 .0 ", x >>

\* Faulty variant: the step width taken over steps+1 points.
DistanceOverStepsPlusOne(i0, n) == RatAdd(start, Rat(i0 * by.num, by.den * (n + 1)))

\* d = start + i*by/steps
Distance(i0, n) == RatAdd(start, Rat(i0 * by.num, by.den * n))

\* d/2
Half(d) == Rat(d.num, 2 * d.den)

Max(a, b) == IF a >= b THEN a ELSE b

\* A cell of an np.empty array that no statement has written yet, and a cell
\* that holds the value v.
Empty == << >>

Cell(v) == << v >>

\* np.empty(n)
np_empty(n) == [s \in 0..(n - 1) |-> Empty]

\* Faulty variant: range(steps) in place of range(steps+1).
RangeOneShort(i0, n) == i0 < n - 1

\* range(n) still has the value i0 to give
InRange(i0, n) == i0 < n

(* ------------------------------------------------------------------ state *)

VARIABLES
    cpu_count,    \* what mp.cpu_count() returns in this run
    steps,        \* the number of steps of the sweep
    pc,           \* the parent cells: "submit", "collect", "complete", "plotted", "raised"
    j,            \* the algorithm loop index (1-based here, 0-based in Python)
    i,            \* the next value of range(steps+1) in the submit loop
    futures,      \* the list futures: one record per submitted unit, in append order
    dicts,        \* the heap of configuration dictionaries; dicts[1] is qiskit_chemistry_dict
    calls,        \* per future, the (configuration, backend) pairs its unit passed to solver.run
    finished,     \* as_completed: futures found done when it started, not yet yielded
    pending,      \* as_completed: futures not done when it started, not yet yielded
    energies,
    hf_energies,
    distances

vars == << cpu_count, steps, pc, j, i, futures, dicts, calls, finished, pending,
           energies, hf_energies, distances >>

\* The place of qiskit_chemistry_dict in the heap.
SharedRef == 1

\* max_workers = max(4, mp.cpu_count())
MaxWorkersOf(n) == Max(MinWorkers, n)

max_workers == MaxWorkersOf(cpu_count)

\* Faulty variant: the shared dictionary itself is handed to the unit.
NoCopy(heap, ref) == [heap |-> heap, ref |-> ref]

\* copy.deepcopy(d): a fresh dictionary with the contents of d.
DeepCopy(heap, ref) == [heap |-> Append(heap, heap[ref]), ref |-> Len(heap) + 1]

\* solver.run(d, backend)'s result: the external solver, a function of its input.
SolverResult(d, backend) ==
    [energy    |-> << "energy", d.algorithm.name, d.PYSCF.atom >>,
     hf_energy |-> << "hf_energy", d.PYSCF.atom >>]

\* Faulty variant: energy and hf_energy returned in each other's place.
ReturnSwapped(f, r) == << f.i, f.d, r.hf_energy, r.energy >>

\* return i, d, result['energy'], result['hf_energy']
Return(f, r) == << f.i, f.d, r.energy, r.hf_energy >>

Running == { k \in 1..Len(futures) : futures[k].state = "RUNNING" }

\* The state when the sweep cell starts, for a sweep of `steps` steps.
Constructed ==
    /\ pc = "submit"
    /\ j = 1
    /\ i = 0
    /\ futures = << >>
    /\ dicts = << qiskit_chemistry_dict >>
    /\ calls = << >>
    /\ finished = {}
    /\ pending = {}
    /\ energies = [a \in 1..Len(algorithms) |-> np_empty(steps + 1)]
    /\ hf_energies = np_empty(steps + 1)
    /\ distances = np_empty(steps + 1)

Init ==
    /\ cpu_count \in 1..MaxCpu
    /\ steps = StepsBound
    /\ Constructed

(* ------------------------------------------------------------- the parent *)

\* One iteration of `for i in range(steps+1)`: executor.submit(...), futures.append.
Submit ==
    /\ pc = "submit"
    /\ InRange(i, steps + 1)
    /\ LET c == DeepCopy(dicts, SharedRef)
       IN /\ dicts' = c.heap
          /\ futures' = Append(futures,
                 [i |-> i, d |-> Distance(i, steps), dict |-> c.ref,
                  backend |-> backends[j], algorithm |-> algorithms[j],
                  state |-> "PENDING", result |-> << >>, exception |-> FALSE])
    /\ calls' = Append(calls, << >>)
    /\ i' = i + 1
    /\ UNCHANGED << cpu_count, steps, pc, j, finished, pending,
                    energies, hf_energies, distances >>

\* concurrent.futures.as_completed(futures) starts: it splits the whole list
\* into the futures already done and those still to wait for.
AsCompleted ==
    /\ pc = "submit"
    /\ ~InRange(i, steps + 1)
    /\ finished' = { k \in 1..Len(futures) : futures[k].state = "FINISHED" }
    /\ pending' = { k \in 1..Len(futures) : futures[k].state # "FINISHED" }
    /\ pc' = "collect"
    /\ UNCHANGED << cpu_count, steps, j, i, futures, dicts, calls,
                    energies, hf_energies, distances >>

\* The futures as_completed may yield next: those found done at its start in
\* any order (it holds them in a set), and only then the waited-for ones that
\* are done by now.
Yieldable ==
    IF finished # {} THEN finished
    ELSE { k \in pending : futures[k].state = "FINISHED" }

\* The body of `for future in as_completed(futures)`, for a future whose unit returned.
Collect(k) ==
    /\ pc = "collect"
    /\ k \in Yieldable
    /\ ~futures[k].exception
    /\ LET r == futures[k].result
       IN /\ energies' = [energies EXCEPT ![j][r[1]] = Cell(r[3])]
          /\ hf_energies' = [hf_energies EXCEPT ![r[1]] = Cell(r[4])]
          /\ distances' = [distances EXCEPT ![r[1]] = Cell(r[2])]
    /\ finished' = finished \ {k}
    /\ pending' = pending \ {k}
    /\ UNCHANGED << cpu_count, steps, pc, j, i, futures, dicts, calls >>

\* Faulty variant: the exception of a failed unit is dropped and collection goes on.
CollectSwallows(k) ==
    /\ pc = "collect"
    /\ k \in Yieldable
    /\ futures[k].exception
    /\ finished' = finished \ {k}
    /\ pending' = pending \ {k}
    /\ UNCHANGED << cpu_count, steps, pc, j, i, futures, dicts, calls,
                    energies, hf_energies, distances >>

\* future.result() of a unit whose solver raised: the exception ends the cell
\* (the with block waits for the pool and lets the exception through).
CollectRaises(k) ==
    /\ pc = "collect"
    /\ k \in Yieldable
    /\ futures[k].exception
    /\ pc' = "raised"
    /\ finished' = finished \ {k}
    /\ pending' = pending \ {k}
    /\ UNCHANGED << cpu_count, steps, j, i, futures, dicts, calls,
                    energies, hf_energies, distances >>

\* Faulty variant: collection ends once the futures already done have been yielded.
ExhaustedIgnoringPending == finished = {}

\* as_completed has yielded every future it was given.
AsCompletedExhausted == finished = {} /\ pending = {}

\* The collection loop ends: the next algorithm, or the end of the with block
\* and print(' --- complete').
NextAlgorithm ==
    /\ pc = "collect"
    /\ AsCompletedExhausted
    /\ IF j < Len(algorithms)
       THEN /\ j' = j + 1
            /\ i' = 0
            /\ pc' = "submit"
       ELSE /\ pc' = "complete"
            /\ UNCHANGED << j, i >>
    /\ UNCHANGED << cpu_count, steps, futures, dicts, calls, finished, pending,
                    energies, hf_energies, distances >>

\* The plotting cells read every cell of the three arrays.
Plot ==
    /\ pc = "complete"
    /\ pc' = "plotted"
    /\ UNCHANGED << cpu_count, steps, j, i, futures, dicts, calls, finished, pending,
                    energies, hf_energies, distances >>

(* --------------------------------------------------------------- the pool *)

\* Faulty variant: a pool that starts every queued unit at once.
NoLimit(n) == TRUE

\* A worker process is free when n units are executing: the pool has max_workers.
WorkerFree(n) == n < max_workers

\* The pool hands out work items in submission order.
NextQueued ==
    { k \in 1..Len(futures) :
        /\ futures[k].state = "PENDING"
        /\ \A m \in 1..(k - 1) : futures[m].state # "PENDING" }

\* A worker takes unit k and runs subrountine up to the solver call: it writes
\* the molecule and the algorithm into the dictionary it was given.
Start(k) ==
    /\ k \in NextQueued
    /\ WorkerFree(Cardinality(Running))
    /\ futures' = [futures EXCEPT ![k].state = "RUNNING"]
    /\ dicts' = [dicts EXCEPT
                   ![futures[k].dict].PYSCF.atom = molecule_format(Half(futures[k].d)),
                   ![futures[k].dict].algorithm = futures[k].algorithm]
    /\ UNCHANGED << cpu_count, steps, pc, j, i, calls, finished, pending,
                    energies, hf_energies, distances >>

\* subrountine calls solver.run(dict, backend) and returns i, d, energy, hf_energy.
SolverReturns(k) ==
    /\ k \in Running
    /\ LET d == dicts[futures[k].dict]
       IN /\ calls' = [calls EXCEPT
                 ![k] = Append(@, [dict |-> d, backend |-> futures[k].backend])]
          /\ futures' = [futures EXCEPT
                 ![k].state = "FINISHED",
                 ![k].result = Return(futures[k], SolverResult(d, futures[k].backend))]
    /\ UNCHANGED << cpu_count, steps, pc, j, i, dicts, finished, pending,
                    energies, hf_energies, distances >>

\* subrountine calls solver.run(dict, backend), which raises: the future holds
\* the exception.
SolverRaises(k) ==
    /\ k \in Running
    /\ calls' = [calls EXCEPT
           ![k] = Append(@, [dict |-> dicts[futures[k].dict],
                             backend |-> futures[k].backend])]
    /\ futures' = [futures EXCEPT ![k].state = "FINISHED", ![k].exception = TRUE]
    /\ UNCHANGED << cpu_count, steps, pc, j, i, dicts, finished, pending,
                    energies, hf_energies, distances >>

(* --------------------------------------------------------- specifications *)

\* The futures a run can hold.
Units == 1..(Len(algorithms) * (steps + 1))

Parent ==
    \/ Submit
    \/ AsCompleted
    \/ \E k \in Units : Collect(k)
    \/ NextAlgorithm
    \/ Plot

Pool ==
    \/ \E k \in Units : Start(k)
    \/ \E k \in Units : SolverReturns(k)

\* The sweep when no solver call raises.
Next == Parent \/ Pool

Spec == Init /\ [][Next]_vars

\* The parent cell keeps running and the pool keeps scheduling queued units.
FairSpec == Spec /\ WF_vars(Parent) /\ WF_vars(Pool)

\* The sweep when a solver call may raise.
NextFail ==
    \/ Next
    \/ \E k \in Units : SolverRaises(k)
    \/ \E k \in Units : CollectRaises(k)

SpecFail == Init /\ [][NextFail]_vars

\* The shortest sweep that queues more units than the smallest pool has workers.
PoolSteps == MinWorkers

\* A machine below the floor of max_workers, one at it, one above it.
PoolCpuCounts == {1, MinWorkers, MaxCpu}

InitPool ==
    /\ cpu_count \in PoolCpuCounts
    /\ steps = PoolSteps
    /\ Constructed

SpecPool == InitPool /\ [][Next]_vars

(* ------------------------------------------------------------- the claims *)

\* The place in futures of the unit of algorithm a (1-based) at step s.
UnitAt(a, s) == (a - 1) * (steps + 1) + s + 1

\* The algorithm (1-based) and the step of the unit at place k of futures.
AlgOf(k) == ((k - 1) \div (steps + 1)) + 1

StepOf(k) == (k - 1) % (steps + 1)

Returned(k) == futures[k].state = "FINISHED" /\ ~futures[k].exception

Failed(k) == futures[k].state = "FINISHED" /\ futures[k].exception

Completed == pc \in {"complete", "plotted"}

AlgIdx == 1..Len(algorithms)

StepIdx == 0..steps

\* C1: once the sweep has completed, energies[j][i] is the energy returned by
\* the unit that ran algorithms[j] at step i, for every algorithm j and step i,
\* whatever the order in which the units completed.
C1_FinalEnergiesKeyedByAlgorithm ==
    Completed =>
        \A a \in AlgIdx : \A s \in StepIdx :
            energies[a][s] = Cell(futures[UnitAt(a, s)].result[3])

\* C6: every value result aggregation has stored in energies[j][i] is an
\* energy returned by a unit that ran algorithms[j] at step i, in every
\* state of the sweep.
C6_RowHoldsOnlyItsAlgorithm ==
    \A a \in AlgIdx : \A s \in StepIdx :
        energies[a][s] # Empty =>
            \E k \in 1..Len(futures) :
                /\ Returned(k)
                /\ futures[k].i = s
                /\ calls[k][1].dict.algorithm = algorithms[a]
                /\ energies[a][s] = Cell(futures[k].result[3])

\* C2: never more than len(algorithms)*(steps+1) units are submitted, no
\* (algorithm, step) pair is submitted twice, no unit calls the solver twice;
\* and when the sweep completes exactly len(algorithms)*(steps+1) units were
\* submitted, one for each pair, and each has called the solver exactly once.
C2_EachPairSubmittedOnce ==
    /\ Len(futures) <= Len(algorithms) * (steps + 1)
    /\ \A k \in 1..Len(futures) : \A m \in 1..Len(futures) :
           (futures[k].algorithm = futures[m].algorithm /\ futures[k].i = futures[m].i)
               => k = m
    /\ \A k \in 1..Len(futures) : Len(calls[k]) <= 1
    /\ Completed =>
           /\ Len(futures) = Len(algorithms) * (steps + 1)
           /\ \A a \in AlgIdx : \A s \in StepIdx :
                  \E k \in 1..Len(futures) :
                      futures[k].algorithm = algorithms[a] /\ futures[k].i = s
           /\ \A k \in 1..Len(futures) : Len(calls[k]) = 1

C2_Witness ==
    /\ pc = "complete"
    /\ Len(futures) = Len(algorithms) * (steps + 1)
    /\ \A k \in 1..Len(futures) : Len(calls[k]) = 1

\* The configuration unit k is meant to pass to the solver.
OwnAtom(k) == molecule_format(Half(RatAdd(start, Rat(StepOf(k) * by.num, by.den * steps))))

\* C3: whenever a unit (j, i) calls the solver, the configuration it passes
\* has the geometry of its own distance d_i (atoms at -d_i/2 and +d_i/2) and
\* the algorithm algorithms[j], and the backend is backends[j]; and while a
\* unit is executing, its configuration holds its own geometry and algorithm,
\* whatever the other units do.
C3_UnitsAreIsolated ==
    \A k \in 1..Len(futures) :
        /\ \A n \in 1..Len(calls[k]) :
               /\ calls[k][n].dict.PYSCF.atom = OwnAtom(k)
               /\ calls[k][n].dict.algorithm = algorithms[AlgOf(k)]
               /\ calls[k][n].backend = backends[AlgOf(k)]
        /\ futures[k].state = "RUNNING" =>
               /\ dicts[futures[k].dict].PYSCF.atom = OwnAtom(k)
               /\ dicts[futures[k].dict].algorithm = algorithms[AlgOf(k)]

\* A unit has called the solver while a unit started before it, with another
\* geometry, is still executing.
C3_Witness ==
    \E k \in 1..Len(futures) : \E m \in 1..Len(futures) :
        /\ m < k
        /\ futures[m].state = "RUNNING"
        /\ Len(calls[k]) = 1
        /\ OwnAtom(m) # OwnAtom(k)

AllCellsWritten ==
    /\ \A a \in AlgIdx : \A s \in StepIdx : energies[a][s] # Empty
    /\ \A s \in StepIdx : hf_energies[s] # Empty
    /\ \A s \in StepIdx : distances[s] # Empty

\* C4: when every solver call returns and the parent and the pool keep
\* running, the sweep eventually reaches ' --- complete', and from then on
\* (so when the plots read them) every cell of energies, hf_energies and
\* distances has been written by a collected result.
C4_SweepCompletesWithAllCellsWritten ==
    /\ <>(pc = "complete")
    /\ [](Completed => AllCellsWritten)

C4_Witness == pc = "plotted" /\ AllCellsWritten

\* C5: a unit whose solver call raised is never run again and keeps its
\* exception; the parent leaves the sweep with the exception when it collects
\* that unit; while a unit has failed no unit of a later algorithm has been
\* submitted and the sweep is not complete; and once the parent has raised it
\* submits and writes nothing more.
C5_NoFailureRecovery ==
    /\ [](\A k \in 1..Len(futures) : Failed(k) =>
              /\ ~Completed
              /\ Len(calls[k]) = 1
              /\ \A m \in 1..Len(futures) : AlgOf(m) <= AlgOf(k))
    /\ [][ /\ \A k \in 1..Len(futures) : Failed(k) =>
                  /\ futures'[k] = futures[k]
                  /\ calls'[k] = calls[k]
                  /\ (k \in finished \cup pending /\ k \notin finished' \cup pending')
                         => pc' = "raised"
           /\ pc = "raised" =>
                  /\ pc' = "raised"
                  /\ Len(futures') = Len(futures)
                  /\ UNCHANGED << energies, hf_energies, distances >> ]_vars

\* The parent has raised on collecting a failed unit of the second algorithm.
C5_Witness ==
    /\ pc = "raised"
    /\ \E k \in 1..Len(futures) :
           Failed(k) /\ AlgOf(k) = 2 /\ k \notin finished \cup pending

\* C7: at most max_workers units execute at the same time, and max_workers is
\* at least 4 and at least the CPU count.
C7_PoolSizeBoundsRunningUnits ==
    /\ Cardinality(Running) <= max_workers
    /\ max_workers >= MinWorkers
    /\ max_workers >= cpu_count

\* On a machine with fewer than 4 CPUs the pool is full and a unit waits.
C7_Witness ==
    /\ cpu_count < MinWorkers
    /\ Cardinality(Running) = max_workers
    /\ NextQueued # {}

\* C8: after a completed sweep distances[0] is start, distances[steps] is
\* start + by, consecutive entries differ by exactly by/steps, and distances
\* is strictly increasing in the step index.
C8_DistancesAreTheGrid ==
    Completed =>
        /\ RatEq(distances[0][1], start)
        /\ RatEq(distances[steps][1], RatAdd(start, by))
        /\ \A s \in 0..(steps - 1) :
               /\ RatEq(RatSub(distances[s + 1][1], distances[s][1]),
                        Rat(by.num, by.den * steps))
               /\ RatLess(distances[s][1], distances[s + 1][1])

C8_Witness ==
    /\ pc = "complete"
    /\ RatEq(distances[0][1], Rat(1, 2))
    /\ RatEq(distances[steps][1], Rat(1, 1))

\* C9: while a unit of algorithm j+1 has been submitted, every unit of
\* algorithm j has finished and has been collected into energies[j]; and the
\* units executing at the same time are all of one algorithm.
C9_BarrierBetweenAlgorithms ==
    /\ \A k \in 1..Len(futures) :
           AlgOf(k) > 1 =>
               \A s \in StepIdx :
                   /\ futures[UnitAt(AlgOf(k) - 1, s)].state = "FINISHED"
                   /\ energies[AlgOf(k) - 1][s] # Empty
    /\ \A k \in Running : \A m \in Running : AlgOf(k) = AlgOf(m)

\* A unit of the second algorithm is executing.
C9_Witness ==
    \E k \in 1..Len(futures) : AlgOf(k) = 2 /\ futures[k].state = "RUNNING"

\* C10: a cell of hf_energies or distances that has been written is only ever
\* written again with the value it holds; and after a completed sweep
\* hf_energies[i] and distances[i] are the Hartree-Fock energy and the
\* distance of step i, whatever the order in which the units completed.
C10_ReferenceArraysIndependentOfOrder ==
    /\ [](Completed =>
              \A s \in StepIdx :
                  /\ RatEq(distances[s][1], RatAdd(start, Rat(s * by.num, by.den * steps)))
                  /\ hf_energies[s] = Cell(<< "hf_energy", OwnAtom(UnitAt(1, s)) >>))
    /\ [][ \A s \in StepIdx :
               /\ hf_energies[s] # Empty => hf_energies'[s] = hf_energies[s]
               /\ distances[s] # Empty => distances'[s] = distances[s] ]_vars

\* A unit of the second algorithm has been collected for a step whose cells
\* the first algorithm's unit had written.
C10_Witness ==
    /\ pc = "collect"
    /\ j = 2
    /\ \E s \in StepIdx :
           /\ Returned(UnitAt(2, s))
           /\ UnitAt(2, s) \notin finished \cup pending
           /\ hf_energies[s] # Empty

====
